---- MODULE Spec2Model ----
(***************************************************************************)
(* Model of worker.py: the Notion task runner (fetch_ready_tasks,           *)
(* handle_task, set_status, safe_run, call_api, codex_apply) and the epic   *)
(* decomposition stage (process_epics, llm_decompose_epic,                  *)
(* create_tasks_in_notion).                                                 *)
(***************************************************************************)
EXTENDS Integers, Sequences, FiniteSets, TLC

----------------------------------------------------------------------------
(* Bounds of the model.                                                     *)

\* record ids of the scheduling store
NTasks == 2
\* number of main() invocations (passes) of one runner over a one-page store
MaxPasses == 4
\* number of main() invocations (passes) of one runner over a larger store
MaxPassesMany == 2
\* length of a Payload.cmd string, in symbols of Alphabet
MaxCmdLen == 3
\* Ready-or-not epics of the epic store
NEpics == 2
\* items of a generated JSON array
MaxItems == 5
\* free items at the head of a reply under validation
MaxHead == 2

----------------------------------------------------------------------------
(* Program constants.                                                       *)

\* _retry(n=5)
RETRY_N == 5
\* _retry(delay=0.8), in tenths of a second
RETRY_DELAY == 8
\* chat_complete: range(5)
CHAT_TRIES == 5
\* fetch_ready_tasks: page_size
PAGE_SIZE == 20
\* fetch_ready_epics: page_size
EPIC_PAGE_SIZE == 3
\* llm_decompose_epic: data[:25]
MAX_ITEMS == 25
\* llm_decompose_epic: len(tasks) < 5
MIN_TASKS == 5
\* llm_decompose_epic: title[:180]
TITLE_MAX == 180
\* llm_decompose_epic: min(999, priority)
PRIORITY_MAX == 999
\* Task.maxAttempts, default 3
MaxAttempts == 3

ALLOWED_ACTIONS == {"run_script", "call_api", "codex_apply"}

\* A string is a sequence of symbols.  A word symbol stands for a run of
\* characters none of which is whitespace, a quote, a backslash or a slash;
\* no concatenation of two or more symbols spells an allow-listed name.
SP == " "
SL == "/"
SQ == "'"
BS == "\\"
WordSyms == {"build.sh", "sync_data.sh", "rm"}
Alphabet == WordSyms \cup {SP, SL, SQ, BS}

ALLOWED_SCRIPTS == {<<"build.sh">>, <<"sync_data.sh">>}
ALLOWED_URLS == {"https://httpbin.org/post"}

----------------------------------------------------------------------------
(* shlex.split(cmd): posix mode, whitespace_split, no comment characters.   *)
(* Lexer states: "ws" (between tokens), "a" (inside a token), "q" (inside   *)
(* single quotes), "esc" (after a backslash outside quotes).                *)

RECURSIVE Lex(_, _, _, _, _)
Lex(s, i, state, tok, acc) ==
    IF i > Len(s)
    THEN CASE state = "ws"  -> [ok |-> TRUE, parts |-> acc]
           [] state = "a"   -> [ok |-> TRUE, parts |-> Append(acc, tok)]
           [] state = "q"   -> [ok |-> FALSE, parts |-> <<>>]  \* No closing quotation
           [] state = "esc" -> [ok |-> FALSE, parts |-> <<>>]  \* No escaped character
    ELSE LET c == s[i] IN
         CASE state = "ws" ->
                  IF c = SP THEN Lex(s, i + 1, "ws", <<>>, acc)
                  ELSE IF c = BS THEN Lex(s, i + 1, "esc", <<>>, acc)
                  ELSE IF c = SQ THEN Lex(s, i + 1, "q", <<>>, acc)
                  ELSE Lex(s, i + 1, "a", <<c>>, acc)
           [] state = "a" ->
                  IF c = SP THEN Lex(s, i + 1, "ws", <<>>, Append(acc, tok))
                  ELSE IF c = SQ THEN Lex(s, i + 1, "q", tok, acc)
                  ELSE IF c = BS THEN Lex(s, i + 1, "esc", tok, acc)
                  ELSE Lex(s, i + 1, "a", Append(tok, c), acc)
           [] state = "q" ->
                  IF c = SQ THEN Lex(s, i + 1, "a", tok, acc)
                  ELSE Lex(s, i + 1, "q", Append(tok, c), acc)
           [] state = "esc" -> Lex(s, i + 1, "a", Append(tok, c), acc)

shlex_split(s) == Lex(s, 1, "ws", <<>>, <<>>)

\* q[:n]
Take(q, n) == SubSeq(q, 1, IF Len(q) < n THEN Len(q) ELSE n)

\* os.path.basename: what follows the last slash
RECURSIVE basename(_)
basename(p) ==
    IF p = <<>> THEN <<>>
    ELSE IF p[Len(p)] = SL THEN <<>>
    ELSE Append(basename(SubSeq(p, 1, Len(p) - 1)), p[Len(p)])

----------------------------------------------------------------------------
(* JSON values of a payload field: missing/null, a string, or another value *)
(* (a number, a list, ...).                                                 *)

NoneV == [kind |-> "none"]
OtherV == [kind |-> "other"]
StrV(s) == [kind |-> "str", s |-> s]

\* Payload text as json.loads sees it: a dict, text that does not parse
\* (payload = {}), or JSON that is no dict.
EmptyDict == [kind |-> "dict", cmd |-> NoneV, url |-> NoneV, method |-> NoneV, body |-> NoneV]
ParsePayload(p) == IF p.kind = "unparsable" THEN EmptyDict ELSE p

CmdPayload(c) == [kind |-> "dict", cmd |-> c, url |-> NoneV, method |-> NoneV, body |-> NoneV]
UrlPayload(u, m) == [kind |-> "dict", cmd |-> NoneV, url |-> u, method |-> m, body |-> NoneV]

----------------------------------------------------------------------------
(* Executors.  `env` is what the outside world answers: fail (the script    *)
(* timed out, the request raised) or the exit code / HTTP status.           *)
(* Result: raised (with msg) or returned (code, out), and the external      *)
(* effect performed: "spawn" of a script, "http" to a url, or none.         *)

\* A log text: a fixed prefix, the text and, for the epic's count, a number.
Log(prefix, text, n) == [prefix |-> prefix, text |-> text, n |-> n]
NoLog == Log("", "", 0)

Raise(msg, eff) == [raised |-> TRUE, msg |-> msg, code |-> 0, out |-> NoLog, effect |-> eff]
Return(code, out, eff) == [raised |-> FALSE, msg |-> "", code |-> code, out |-> out, effect |-> eff]
NoEffect == [kind |-> "none"]
Spawn(name) == [kind |-> "spawn", script |-> name]
Http(url) == [kind |-> "http", url |-> url]

\* safe_run that looks at the first token only
safe_run_first_token(cmd, env) ==
    IF cmd.kind = "other" THEN Raise("shlex: not a string", NoEffect)
    ELSE LET text == IF cmd.kind = "none" THEN <<>> ELSE cmd.s
             lexed == shlex_split(text)
         IN IF ~lexed.ok THEN Raise("shlex: ValueError", NoEffect)
            ELSE IF Len(lexed.parts) < 1
                 THEN Raise("Only single command name allowed in Payload.cmd", NoEffect)
            ELSE LET name == basename(lexed.parts[1]) IN
                 IF name \notin ALLOWED_SCRIPTS
                 THEN Raise("Script not allowed", NoEffect)
                 ELSE IF env.fail
                      THEN Raise("TimeoutExpired", Spawn(name))
                      ELSE Return(env.code, Log("", "stdout+stderr", 0), Spawn(name))

safe_run(cmd, env) ==
    IF cmd.kind = "other" THEN Raise("shlex: not a string", NoEffect)
    ELSE LET text == IF cmd.kind = "none" THEN <<>> ELSE cmd.s
             lexed == shlex_split(text)
         IN IF ~lexed.ok THEN Raise("shlex: ValueError", NoEffect)
            ELSE IF Len(lexed.parts) # 1
                 THEN Raise("Only single command name allowed in Payload.cmd", NoEffect)
            ELSE LET name == basename(lexed.parts[1]) IN
                 IF name \notin ALLOWED_SCRIPTS
                 THEN Raise("Script not allowed", NoEffect)
                 ELSE IF env.fail
                      THEN Raise("TimeoutExpired", Spawn(name))
                      ELSE Return(env.code, Log("", "stdout+stderr", 0), Spawn(name))

\* call_api that only requires a url to be present
call_api_any_url(payload, env) ==
    IF payload.method.kind = "other" THEN Raise("method: no upper()", NoEffect)
    ELSE IF payload.url.kind # "str" \/ payload.url.s = ""
         THEN Raise("URL not allowed", NoEffect)
    ELSE IF env.fail THEN Raise("RequestException", Http(payload.url.s))
    ELSE Return(env.code, Log("", "status_code body", 0), Http(payload.url.s))

call_api(payload, env) ==
    IF payload.method.kind = "other" THEN Raise("method: no upper()", NoEffect)
    ELSE IF payload.url.kind # "str" \/ payload.url.s = "" \/ payload.url.s \notin ALLOWED_URLS
         THEN Raise("URL not allowed", NoEffect)
    ELSE IF env.fail THEN Raise("RequestException", Http(payload.url.s))
    ELSE Return(env.code, Log("", "status_code body", 0), Http(payload.url.s))

codex_apply(payload) == Raise("codex_apply disabled (Codex CLI not installed)", NoEffect)

\* handle_task lines 145-152: dispatch on the action
Dispatch(action, payload, env) ==
    IF action \in {"run_script", "call_api"} /\ payload.kind = "nondict"
    THEN Raise("payload has no get()", NoEffect)
    ELSE CASE action = "run_script"  -> safe_run(payload.cmd, env)
           [] action = "call_api"    -> call_api(payload, env)
           [] action = "codex_apply" -> codex_apply(payload)
           [] OTHER -> Raise("Unknown or not allowed action", NoEffect)

\* handle_task line 154: the success test
IsSuccess(code) == code = 0 \/ (200 <= code /\ code < 300)

\* handle_task lines 144-159: the status and logs of the final set_status
\* (returned, code: whether the executor returned, and the code it returned)
Outcome(action, payload, env) ==
    LET r == Dispatch(action, payload, env) IN
    IF r.raised
    THEN [status |-> "Failed", logs |-> Log("Error: ", r.msg, 0), effect |-> r.effect,
          returned |-> FALSE, code |-> 0]
    ELSE [status |-> IF IsSuccess(r.code) THEN "Done" ELSE "Failed", logs |-> r.out,
          effect |-> r.effect, returned |-> TRUE, code |-> r.code]

----------------------------------------------------------------------------
(* _retry and the two wrapped store calls.  `fails` is the number of        *)
(* consecutive invocations of the wrapped call that raise: the wrapper      *)
(* returns iff one of its RETRY_N invocations succeeds.                     *)

_retry(fails) == fails < RETRY_N

\* set_status: the Status (and Logs) properties after the call; a failed
\* pages.update is printed and swallowed.
set_status(st, lg, id, newStatus, newLogs, fails) ==
    IF _retry(fails)
    THEN [status |-> [st EXCEPT ![id] = newStatus],
          logs |-> IF newLogs # NoLog THEN [lg EXCEPT ![id] = newLogs] ELSE lg]
    ELSE [status |-> st, logs |-> lg]

----------------------------------------------------------------------------
(* llm_decompose_epic.  A generated item is a JSON object with the fields   *)
(* title, action, payload, priority, or a JSON value that is no object.     *)
(* Titles and actions are strings of symbols; SP is their whitespace.       *)

RECURSIVE lstrip(_)
lstrip(x) == IF x # <<>> /\ x[1] = SP THEN lstrip(Tail(x)) ELSE x
RECURSIVE rstrip(_)
rstrip(x) == IF x # <<>> /\ x[Len(x)] = SP THEN rstrip(SubSeq(x, 1, Len(x) - 1)) ELSE x
\* a strip that removes nothing
strip_nothing(x) == x

strip(x) == rstrip(lstrip(x))

\* str(v or default) of a JSON value: a non-empty string is itself, a missing
\* or empty one the default, any other value its repr
StrOr(v, default) ==
    CASE v.kind = "str" /\ v.s # <<>> -> v.s
      [] v.kind = "other" -> <<"repr">>
      [] OTHER -> default

\* the same for a url, whose text is one symbol
UrlOr(v, default) ==
    CASE v.kind = "str" /\ v.s # "" -> v.s
      [] v.kind = "other" -> "repr"
      [] OTHER -> default

\* str.upper on the method names of the model
upper(m) == CASE m = "post" -> "POST" [] m = "get" -> "GET" [] OTHER -> m

\* int(item.get("priority") or p): raises on text that is no number
PriorityOf(v, p) ==
    CASE v.kind = "none" -> [ok |-> TRUE, n |-> p]
      [] v.kind = "int" -> [ok |-> TRUE, n |-> IF v.n = 0 THEN p ELSE v.n]
      [] v.kind = "numstr" -> [ok |-> TRUE, n |-> v.n]
      [] OTHER -> [ok |-> FALSE, n |-> 0]

Clamp(n) == IF n < 1 THEN 1 ELSE IF n > PRIORITY_MAX THEN PRIORITY_MAX ELSE n

\* the default body {"ping": "ok"}
PingBody == [kind |-> "ping"]
DEFAULT_CMD == <<"build.sh">>
DEFAULT_URL == "https://httpbin.org/post"

\* lines 253-264: the payload written for an accepted item
SanitizePayload(action, pl) ==
    IF action = <<"run_script">>
    THEN LET cmd == StrOr(pl.cmd, DEFAULT_CMD) IN
         [ok |-> TRUE,
          pl |-> [cmd |-> IF cmd \notin ALLOWED_SCRIPTS THEN DEFAULT_CMD ELSE cmd]]
    ELSE LET url == UrlOr(pl.url, DEFAULT_URL) IN
         IF pl.method.kind = "other" THEN [ok |-> FALSE, pl |-> [cmd |-> <<>>]]
         ELSE [ok |-> TRUE,
               pl |-> [url |-> IF url \notin ALLOWED_URLS THEN DEFAULT_URL ELSE url,
                       method |-> IF pl.method.kind = "str" /\ pl.method.s # ""
                                  THEN upper(pl.method.s) ELSE "POST",
                       body |-> IF pl.body.kind = "none" THEN PingBody ELSE pl.body]]

Failure(err) == [ok |-> FALSE, tasks |-> <<>>, err |-> err]

\* lines 243-272: the validation loop over data[:25]
RECURSIVE ValidateLoop(_, _, _, _)
ValidateLoop(data, i, p, tasks) ==
    IF i > Len(data) THEN [ok |-> TRUE, tasks |-> tasks, err |-> ""]
    ELSE LET item == data[i] IN
         IF item.kind # "dict" THEN Failure("item has no get()")
         ELSE IF item.action.kind = "other" THEN Failure("action has no strip()")
         ELSE LET title == Take(strip(StrOr(item.title, <<>>)), TITLE_MAX)
                  action == strip(StrOr(item.action, <<>>))
                  pl == IF item.payload.kind = "none" THEN EmptyDict ELSE item.payload
                  prio == PriorityOf(item.priority, p)
              IN IF ~prio.ok THEN Failure("int(): invalid priority")
                 ELSE IF title = <<>> \/ action \notin {<<"run_script">>, <<"call_api">>}
                      THEN ValidateLoop(data, i + 1, p, tasks)
                 ELSE IF pl.kind # "dict" THEN Failure("payload has no get()")
                 ELSE LET sp == SanitizePayload(action, pl) IN
                      IF ~sp.ok THEN Failure("method has no upper()")
                      ELSE ValidateLoop(data, i + 1, p + 1,
                              Append(tasks, [title |-> title, action |-> action,
                                             payload |-> sp.pl, priority |-> Clamp(prio.n)]))

\* lines 225-240: the JSON array taken from the reply text.  A reply is the
\* JSON text alone ("bare"), inside a code fence ("fenced") or inside prose
\* ("prose"); in prose only an array of objects is found by the pattern.
ExtractArray(wrap, data) ==
    IF data.kind = "notjson" THEN Failure("LLM JSON parse error")
    ELSE IF data.kind = "nonlist"
         THEN Failure(IF wrap = "prose" THEN "LLM JSON parse error" ELSE "Expected a JSON array")
    ELSE IF wrap = "prose"
              /\ ~(data.items # <<>> /\ data.items[1].kind = "dict"
                     /\ data.items[Len(data.items)].kind = "dict")
         THEN Failure("LLM JSON parse error")
    ELSE [ok |-> TRUE, tasks |-> data.items, err |-> ""]

\* llm_decompose_epic without the test of lines 274-275
llm_decompose_epic_no_minimum(resp) ==
    CASE resp.kind = "nokey"   -> Failure("OPENAI_API_KEY not set (LLM unavailable)")
      [] resp.kind = "neterr"  -> Failure("RequestException")
      [] resp.kind = "httperr" -> Failure("OpenAI API error")
      [] resp.kind = "noshape" -> Failure("KeyError: choices")
      [] OTHER ->
           LET arr == ExtractArray(resp.wrap, resp.data) IN
           IF ~arr.ok THEN arr
           ELSE LET v == ValidateLoop(Take(arr.tasks, MAX_ITEMS), 1, 1, <<>>) IN
                IF v.ok /\ Len(v.tasks) = 0 THEN Failure("Too few tasks after validation")
                ELSE v

\* lines 195-277; resp is what the environment and the backend answer
llm_decompose_epic(resp) ==
    CASE resp.kind = "nokey"   -> Failure("OPENAI_API_KEY not set (LLM unavailable)")
      [] resp.kind = "neterr"  -> Failure("RequestException")
      [] resp.kind = "httperr" -> Failure("OpenAI API error")
      [] resp.kind = "noshape" -> Failure("KeyError: choices")
      [] OTHER ->
           LET arr == ExtractArray(resp.wrap, resp.data) IN
           IF ~arr.ok THEN arr
           ELSE LET v == ValidateLoop(Take(arr.tasks, MAX_ITEMS), 1, 1, <<>>) IN
                IF ~v.ok THEN v
                ELSE IF Len(v.tasks) < MIN_TASKS THEN Failure("Too few tasks after validation")
                ELSE v

\* The replies of the generation backend.
Item(title, action, payload, priority) ==
    [kind |-> "dict", title |-> title, action |-> action, payload |-> payload,
     priority |-> priority]

\* the shapes of item the replies of the epic stage are drawn from: a
\* run_script task with a foreign cmd (kept, cmd clamped) and an item with
\* another action (dropped)
EpicItems ==
    {Item(StrV(<<"T">>), StrV(<<"run_script">>), CmdPayload(StrV(<<"rm">>)),
          [kind |-> "int", n |-> 7]),
     Item(StrV(<<"T">>), StrV(<<"codex_apply">>), NoneV, NoneV)}

ItemLists == UNION {[1..n -> EpicItems] : n \in 0..MaxItems}

Responses ==
    {[kind |-> k] : k \in {"nokey", "neterr", "httperr", "noshape"}}
      \cup {[kind |-> "text", wrap |-> w, data |-> d] :
               w \in {"bare", "fenced", "prose"},
               d \in {[kind |-> "notjson"], [kind |-> "nonlist"]}}
      \cup {[kind |-> "text", wrap |-> w, data |-> [kind |-> "list", items |-> l]] :
               w \in {"bare", "fenced", "prose"}, l \in ItemLists}

\* the number of tasks the validation loop keeps (-1 when it is not reached
\* or raises)
ValidCount(resp) ==
    IF resp.kind # "text" THEN -1
    ELSE LET arr == ExtractArray(resp.wrap, resp.data) IN
         IF ~arr.ok THEN -1
         ELSE LET v == ValidateLoop(Take(arr.tasks, MAX_ITEMS), 1, 1, <<>>) IN
              IF v.ok THEN Len(v.tasks) ELSE -1

\* requests.post was reached
CallsBackend(resp) == resp.kind # "nokey"

\* what llm_decompose_epic does with each reply: its result, whether the
\* backend was called, and the tasks the validation loop kept
Decompositions ==
    {[tasks |-> llm_decompose_epic(resp), called |-> CallsBackend(resp),
      valid |-> ValidCount(resp)] : resp \in Responses}

----------------------------------------------------------------------------
(* State.                                                                   *)

Runners == {1, 2}
\* failing invocations of a wrapped store call: none, all but the last, all
FailCounts == {0, RETRY_N - 1, RETRY_N}
Prios == {1, 2}
ExitCodes == {0, 1, 200, -9}
HttpCodes == {200, 299, 300, 404, 500}

VARIABLES
    ids,       \* page ids of the database
    page,      \* id -> the properties the engine never writes
    status,    \* id -> Status select
    logs,      \* id -> Logs rich text (NoLog when empty)
    attempts,  \* id -> number of execution attempts the engine made
    effects,   \* id -> external effects performed for the page
    phase,     \* id -> progress of the page within the current pass
    active,    \* runners that exist
    pc,        \* runner -> position in main
    snapshot,  \* runner -> result of fetch_ready_tasks
    idx,       \* runner -> loop index into snapshot (1-based)
    result,    \* runner -> status and logs computed by handle_task
    passes,    \* runner -> number of main() invocations started
    epics,     \* runner -> result of fetch_ready_epics
    eidx,      \* runner -> loop index into epics (1-based)
    decomp,    \* runner -> outcome of llm_decompose_epic / create_tasks_in_notion
    cidx,      \* runner -> loop index of create_tasks_in_notion (1-based)
    created,   \* runner -> the counter `created` of create_tasks_in_notion
    llmCalls,  \* id -> requests sent to the generation backend for the epic
    entered,   \* id -> create_tasks_in_notion was entered for the epic
    valid,     \* id -> tasks the validation loop kept for the epic (-1: none run)
    reply,     \* the reply of the generation backend under validation
    retryCall, \* the call through the _retry wrapper in progress
    chatCall   \* the call of chat_complete in progress

epicVars == <<epics, eidx, decomp, cidx, created, llmCalls, entered, valid>>

auxVars == <<reply, retryCall, chatCall>>

vars == <<ids, page, status, logs, attempts, effects, phase,
          active, pc, snapshot, idx, result, passes, epicVars, auxVars>>

NoDecomp == Failure("")
\* no reply under validation, no call in progress
NoReply == [kind |-> "nokey"]
NoCall == [state |-> "idle"]
NoResult == [status |-> "", logs |-> NoLog, returned |-> FALSE, code |-> 0]

----------------------------------------------------------------------------
(* fetch_ready_tasks: Status = Ready, sorted by Priority ascending, then    *)
(* last_edited_time ascending, first PAGE_SIZE results.                     *)

Before(a, b) ==
    \/ page[a].priority < page[b].priority
    \/ page[a].priority = page[b].priority /\ page[a].lastEdited < page[b].lastEdited

\* a filter that lets Draft pages through
ReadyOrDraftIds == {t \in ids : status[t] \in {"Ready", "Draft"}}

ReadyIds == {t \in ids : status[t] = "Ready"}

\* a query whose sort on Priority is descending
IsSortedDescending(q) == \A i, j \in 1..Len(q) : i < j => ~Before(q[i], q[j])

IsSorted(q) == \A i, j \in 1..Len(q) : i < j => ~Before(q[j], q[i])

Orderings(S) ==
    {q \in [1..Cardinality(S) -> S] : (\A t \in S : \E i \in 1..Cardinality(S) : q[i] = t)}

\* a query that returns every page twice
QueryReadyTwice == {Take(q, PAGE_SIZE) \o Take(q, PAGE_SIZE) : q \in {o \in Orderings(ReadyIds) : IsSorted(o)}}

QueryReady == {Take(q, PAGE_SIZE) : q \in {o \in Orderings(ReadyIds) : IsSorted(o)}}

\* fetch_ready_epics: Type = Epic and Status = Ready, sorted by
\* last_edited_time ascending, first EPIC_PAGE_SIZE results.
ReadyEpicIds == {e \in ids : page[e].type = "Epic" /\ status[e] = "Ready"}

IsSortedByTime(q) == \A i, j \in 1..Len(q) : i < j => page[q[i]].lastEdited <= page[q[j]].lastEdited

QueryReadyEpics ==
    {Take(q, EPIC_PAGE_SIZE) : q \in {o \in Orderings(ReadyEpicIds) : IsSortedByTime(o)}}

\* main lines 333-334 and process_epics line 308
fetch_ready_epics(r) ==
    /\ r \in active
    /\ pc[r] = "epics"
    /\ \E q \in QueryReadyEpics :
          /\ epics' = [epics EXCEPT ![r] = q]
          /\ pc' = [pc EXCEPT ![r] = IF Len(q) = 0 THEN "fetch" ELSE "epic"]
    /\ eidx' = [eidx EXCEPT ![r] = 1]
    /\ UNCHANGED <<ids, page, status, logs, attempts, effects, phase, active,
                   snapshot, idx, result, passes, decomp, cidx, created, llmCalls, entered, valid>>
    /\ UNCHANGED auxVars

fetch_ready_tasks(r) ==
    /\ r \in active
    /\ pc[r] = "fetch"
    /\ \E q \in QueryReady :
          /\ snapshot' = [snapshot EXCEPT ![r] = q]
          /\ pc' = [pc EXCEPT ![r] = IF Len(q) = 0 THEN "finished" ELSE "handle"]
    /\ idx' = [idx EXCEPT ![r] = 1]
    /\ phase' = [t \in ids |-> "none"]
    /\ UNCHANGED <<ids, page, status, logs, attempts, effects, active, result, passes, epicVars>>
    /\ UNCHANGED auxVars

\* handle_task lines 131-143: read the page, then set_status(Running).
\* A page without a Name title raises KeyError outside any try: main dies.
handle_task_begin(r) ==
    /\ r \in active
    /\ pc[r] = "handle"
    /\ LET t == snapshot[r][idx[r]] IN
       IF ~page[t].nameOk
       THEN /\ pc' = [pc EXCEPT ![r] = "crashed"]
            /\ UNCHANGED <<status, logs, attempts, phase>>
       ELSE \E fails \in FailCounts :
              LET s == set_status(status, logs, t, "Running", NoLog, fails) IN
              /\ status' = s.status
              /\ logs' = s.logs
              /\ attempts' = [attempts EXCEPT ![t] = @ + 1]
              /\ phase' = [phase EXCEPT ![t] = "running"]
              /\ pc' = [pc EXCEPT ![r] = "exec"]
    /\ UNCHANGED <<ids, page, effects, active, snapshot, idx, result, passes, epicVars>>
    /\ UNCHANGED auxVars

Envs(action) ==
    CASE action = "run_script" -> {[fail |-> TRUE, code |-> 0]} \cup {[fail |-> FALSE, code |-> c] : c \in ExitCodes}
      [] action = "call_api"   -> {[fail |-> TRUE, code |-> 0]} \cup {[fail |-> FALSE, code |-> c] : c \in HttpCodes}
      [] OTHER -> {[fail |-> FALSE, code |-> 0]}

\* handle_task lines 144-159 up to the choice of the final status
handle_task_exec(r) ==
    /\ r \in active
    /\ pc[r] = "exec"
    /\ LET t == snapshot[r][idx[r]] IN
       \E env \in Envs(page[t].action) :
          LET o == Outcome(page[t].action, ParsePayload(page[t].payload), env) IN
          /\ result' = [result EXCEPT ![r] = [status |-> o.status, logs |-> o.logs,
                                                returned |-> o.returned, code |-> o.code]]
          /\ effects' = [effects EXCEPT ![t] =
                            IF o.effect.kind = "none" THEN @ ELSE @ \cup {o.effect}]
          /\ phase' = [phase EXCEPT ![t] = "executed"]
    /\ pc' = [pc EXCEPT ![r] = "final"]
    /\ UNCHANGED <<ids, page, status, logs, attempts, active, snapshot, idx, passes, epicVars>>
    /\ UNCHANGED auxVars

\* handle_task lines 155-159: the final set_status; then main's loop advances
handle_task_end(r) ==
    /\ r \in active
    /\ pc[r] = "final"
    /\ LET t == snapshot[r][idx[r]] IN
       \E fails \in FailCounts :
          LET s == set_status(status, logs, t, result[r].status, result[r].logs, fails) IN
          /\ status' = s.status
          /\ logs' = s.logs
          /\ phase' = [phase EXCEPT ![t] = "finished"]
    /\ idx' = [idx EXCEPT ![r] = @ + 1]
    /\ pc' = [pc EXCEPT ![r] = IF idx[r] + 1 > Len(snapshot[r]) THEN "finished" ELSE "handle"]
    /\ result' = [result EXCEPT ![r] = NoResult]
    /\ UNCHANGED <<ids, page, attempts, effects, active, snapshot, passes, epicVars>>
    /\ UNCHANGED auxVars

PassLimit == IF Cardinality(ids) = 1 THEN MaxPasses ELSE MaxPassesMany

\* the next invocation of main (a later scheduled run of the worker)
main(r) ==
    /\ r \in active
    /\ pc[r] \in {"finished", "crashed"}
    /\ passes[r] < PassLimit
    /\ passes' = [passes EXCEPT ![r] = @ + 1]
    /\ pc' = [pc EXCEPT ![r] = "epics"]
    /\ snapshot' = [snapshot EXCEPT ![r] = <<>>]
    /\ idx' = [idx EXCEPT ![r] = 1]
    /\ UNCHANGED <<ids, page, status, logs, attempts, effects, phase, active, result, epicVars>>
    /\ UNCHANGED auxVars

----------------------------------------------------------------------------
(* process_epics.                                                           *)

EpicCurrent(r) == epics[r][eidx[r]]

\* the loop of process_epics moves to the next epic, or main goes on to the
\* task stage
NextEpicPc(r) == IF eidx[r] + 1 > Len(epics[r]) THEN "fetch" ELSE "epic"

\* lines 310-317: read the epic, fail an empty description, else set Running.
\* An epic without a Name title raises KeyError: process_epics ends and main
\* (lines 333-336) prints the warning and goes on to the task stage.
process_epic_begin(r) ==
    /\ r \in active
    /\ pc[r] = "epic"
    /\ LET e == EpicCurrent(r) IN
       IF ~page[e].nameOk
       THEN /\ pc' = [pc EXCEPT ![r] = "fetch"]
            /\ UNCHANGED <<status, logs, eidx>>
       ELSE IF strip(page[e].desc) = <<>>
       THEN \E fails \in FailCounts :
              LET s == set_status(status, logs, e, "Failed",
                                  Log("", "Epic has empty Description", 0), fails) IN
              /\ status' = s.status
              /\ logs' = s.logs
              /\ eidx' = [eidx EXCEPT ![r] = @ + 1]
              /\ pc' = [pc EXCEPT ![r] = NextEpicPc(r)]
       ELSE \E fails \in FailCounts :
              LET s == set_status(status, logs, e, "Running",
                                  Log("", "Decomposing epic into tasks...", 0), fails) IN
              /\ status' = s.status
              /\ logs' = s.logs
              /\ pc' = [pc EXCEPT ![r] = "decompose"]
              /\ UNCHANGED eidx
    /\ UNCHANGED <<ids, page, attempts, effects, phase, active, snapshot, idx, result,
                   passes, epics, decomp, cidx, created, llmCalls, entered, valid>>
    /\ UNCHANGED auxVars

\* line 319: tasks = llm_decompose_epic(desc)
process_epic_decompose(r) ==
    /\ r \in active
    /\ pc[r] = "decompose"
    /\ \E o \in Decompositions :
          LET e == EpicCurrent(r)
          IN /\ decomp' = [decomp EXCEPT ![r] = o.tasks]
             /\ llmCalls' = [llmCalls EXCEPT ![e] = IF o.called THEN @ + 1 ELSE @]
             /\ entered' = [entered EXCEPT ![e] = @ \/ o.tasks.ok]
             /\ valid' = [valid EXCEPT ![e] = o.valid]
             /\ pc' = [pc EXCEPT ![r] = IF o.tasks.ok THEN "create" ELSE "epic_end"]
    /\ cidx' = [cidx EXCEPT ![r] = 1]
    /\ created' = [created EXCEPT ![r] = 0]
    /\ UNCHANGED <<ids, page, status, logs, attempts, effects, phase, active,
                   snapshot, idx, result, passes, epics, eidx>>
    /\ UNCHANGED auxVars

\* the page create_tasks_in_notion posts for a validated task (lines 287-294);
\* Payload is json.dumps of the payload, read back by handle_task's json.loads;
\* origin (the epic the page was created for) is no property of the page
DraftPage(t, time, e) ==
    [type |-> "Task", action |-> t.action[1],
     payload |-> IF t.action = <<"run_script">>
                 THEN CmdPayload(StrV(t.payload.cmd))
                 ELSE [UrlPayload(StrV(t.payload.url), StrV(t.payload.method))
                         EXCEPT !.body = t.payload.body],
     nameOk |-> TRUE, priority |-> t.priority, lastEdited |-> time,
     dependsOn |-> {}, desc |-> <<>>, origin |-> e]

NewId == CHOOSE n \in 1..(Cardinality(ids) + 1) : n \notin ids

\* lines 286-304, one iteration: the POST answers ok, answers an error, or
\* raises (network error, timeout); a raise leaves create_tasks_in_notion
\* and is caught by process_epics (line 322)
create_tasks_in_notion(r) ==
    /\ r \in active
    /\ pc[r] = "create"
    /\ LET t == decomp[r].tasks[cidx[r]]
           last == cidx[r] = Len(decomp[r].tasks)
       IN \E post \in {"ok", "error", "raise"} :
            /\ IF post = "ok"
               THEN /\ ids' = ids \cup {NewId}
                    /\ page' = (NewId :> DraftPage(t, Cardinality(ids) + 1, EpicCurrent(r))) @@ page
                    /\ status' = (NewId :> "Draft") @@ status
                    /\ logs' = (NewId :> NoLog) @@ logs
                    /\ attempts' = (NewId :> 0) @@ attempts
                    /\ effects' = (NewId :> {}) @@ effects
                    /\ phase' = (NewId :> "none") @@ phase
                    /\ llmCalls' = (NewId :> 0) @@ llmCalls
                    /\ entered' = (NewId :> FALSE) @@ entered
                    /\ valid' = (NewId :> -1) @@ valid
                    /\ created' = [created EXCEPT ![r] = @ + 1]
               ELSE UNCHANGED <<ids, page, status, logs, attempts, effects, phase,
                                llmCalls, entered, valid, created>>
            /\ IF post = "raise"
               THEN /\ decomp' = [decomp EXCEPT ![r] = Failure("RequestException")]
                    /\ pc' = [pc EXCEPT ![r] = "epic_end"]
                    /\ UNCHANGED cidx
               ELSE /\ cidx' = [cidx EXCEPT ![r] = @ + 1]
                    /\ pc' = [pc EXCEPT ![r] = IF last THEN "epic_end" ELSE "create"]
                    /\ UNCHANGED decomp
    /\ UNCHANGED <<active, snapshot, idx, result, passes, epics, eidx>>
    /\ UNCHANGED auxVars

\* lines 321 and 323: the final set_status of the epic
process_epic_end(r) ==
    /\ r \in active
    /\ pc[r] = "epic_end"
    /\ LET e == EpicCurrent(r) IN
       \E fails \in FailCounts :
          LET s == IF decomp[r].ok
                   THEN set_status(status, logs, e, "Done",
                                   Log("Created ", " task(s) from epic", created[r]), fails)
                   ELSE set_status(status, logs, e, "Failed",
                                   Log("Epic decomposition failed: ", decomp[r].err, 0), fails)
          IN /\ status' = s.status
             /\ logs' = s.logs
    /\ eidx' = [eidx EXCEPT ![r] = @ + 1]
    /\ pc' = [pc EXCEPT ![r] = NextEpicPc(r)]
    /\ decomp' = [decomp EXCEPT ![r] = NoDecomp]
    /\ UNCHANGED <<ids, page, attempts, effects, phase, active, snapshot, idx, result,
                   passes, epics, cidx, created, llmCalls, entered, valid>>
    /\ UNCHANGED auxVars

NextEpics ==
    \E r \in Runners :
       \/ fetch_ready_epics(r)
       \/ process_epic_begin(r)
       \/ process_epic_decompose(r)
       \/ create_tasks_in_notion(r)
       \/ process_epic_end(r)

NextTasks ==
    \E r \in Runners :
       \/ fetch_ready_epics(r)
       \/ fetch_ready_tasks(r)
       \/ handle_task_begin(r)
       \/ handle_task_exec(r)
       \/ handle_task_end(r)
       \/ main(r)

----------------------------------------------------------------------------
(* Stores.                                                                  *)

TaskPage(action, payload, nameOk, prio, time, deps) ==
    [type |-> "Task", action |-> action, payload |-> payload, nameOk |-> nameOk,
     priority |-> prio, lastEdited |-> time, dependsOn |-> deps, desc |-> <<>>,
     origin |-> 0]

\* the shapes of page the scheduling store is drawn from; in that store the
\* last-edited order is the reverse of the id order and page 1 depends on
\* page 2
SchedShapes ==
    {[action |-> "run_script", payload |-> CmdPayload(StrV(<<"build.sh">>)), nameOk |-> TRUE],
     [action |-> "call_api", payload |-> UrlPayload(StrV("https://evil.example/hook"), NoneV), nameOk |-> TRUE],
     [action |-> "run_script", payload |-> CmdPayload(StrV(<<"build.sh">>)), nameOk |-> FALSE]}

TaskIds == 1..NTasks

SchedStores ==
    {[t \in TaskIds |->
         TaskPage(c[t][1].action, c[t][1].payload, c[t][1].nameOk, c[t][2],
                  NTasks + 1 - t, IF t = 1 /\ NTasks > 1 THEN {2} ELSE {})] :
       c \in [TaskIds -> SchedShapes \X Prios]}

InitRunners ==
    /\ active = {1}
    /\ pc = [r \in Runners |-> "epics"]
    /\ snapshot = [r \in Runners |-> <<>>]
    /\ idx = [r \in Runners |-> 1]
    /\ result = [r \in Runners |-> NoResult]
    /\ passes = [r \in Runners |-> 1]
    /\ epics = [r \in Runners |-> <<>>]
    /\ eidx = [r \in Runners |-> 1]
    /\ decomp = [r \in Runners |-> NoDecomp]
    /\ cidx = [r \in Runners |-> 1]
    /\ created = [r \in Runners |-> 0]
    /\ reply = NoReply
    /\ retryCall = NoCall
    /\ chatCall = NoCall

Init ==
    /\ ids = TaskIds
    /\ page \in SchedStores
    /\ status \in [TaskIds -> {"Ready", "Done"}]
    /\ logs = [t \in TaskIds  |-> NoLog]
    /\ attempts = [t \in TaskIds |-> 0]
    /\ effects = [t \in TaskIds |-> {}]
    /\ phase = [t \in TaskIds |-> "none"]
    /\ llmCalls = [t \in TaskIds |-> 0]
    /\ entered = [t \in TaskIds |-> FALSE]
    /\ valid = [t \in TaskIds |-> -1]
    /\ InitRunners

Spec == Init /\ [][NextTasks]_vars

\* One page, drawn from every action and every payload of the bounded sets.
Cmds == UNION {[1..n -> Alphabet] : n \in 0..MaxCmdLen}
CmdVals == {NoneV, OtherV} \cup {StrV(c) : c \in Cmds}
Urls == {"", "https://httpbin.org/post", "https://httpbin.org/post/", "https://evil.example/hook"}
UrlVals == {NoneV, OtherV} \cup {StrV(u) : u \in Urls}
MethodVals == {NoneV, OtherV, StrV("post")}
Payloads ==
    {CmdPayload(c) : c \in CmdVals}
      \cup {UrlPayload(u, m) : u \in UrlVals, m \in MethodVals}
      \cup {[kind |-> "unparsable"], [kind |-> "nondict"]}
NoAction == "None"
Actions == ALLOWED_ACTIONS \cup {"deploy", NoAction}

ExecPages ==
    {TaskPage(a, p, TRUE, 1, 1, {}) : a \in Actions, p \in Payloads}
      \cup {TaskPage("run_script", CmdPayload(StrV(<<"build.sh">>)), FALSE, 1, 1, {})}

InitExec ==
    /\ ids = {1}
    /\ page \in [{1} -> ExecPages]
    /\ status = [t \in {1} |-> "Ready"]
    /\ logs = [t \in {1}  |-> NoLog]
    /\ attempts = [t \in {1} |-> 0]
    /\ effects = [t \in {1} |-> {}]
    /\ phase = [t \in {1} |-> "none"]
    /\ llmCalls = [t \in {1} |-> 0]
    /\ entered = [t \in {1} |-> FALSE]
    /\ valid = [t \in {1} |-> -1]
    /\ InitRunners

SpecExec == InitExec /\ [][NextTasks]_vars

\* Epics.
EpicPage(desc, nameOk, time) ==
    [type |-> "Epic", action |-> NoAction, payload |-> EmptyDict, nameOk |-> nameOk,
     priority |-> 1, lastEdited |-> time, dependsOn |-> {}, desc |-> desc, origin |-> 0]

EpicIds == 1..NEpics

\* the stores of the epic stage: the epics edited before the last one have an
\* empty or blank description (they cost no reply), the last one is any epic
EpicStores ==
    {[e \in EpicIds |-> EpicPage(c[e][1], c[e][2], e)] :
       c \in {f \in [EpicIds -> {<<>>, <<SP>>, <<"T">>} \X BOOLEAN] :
                 \A e \in EpicIds : e < NEpics => f[e][1] # <<"T">>}}

InitEpic ==
    /\ ids = EpicIds
    /\ page \in EpicStores
    /\ status \in [EpicIds -> {"Ready", "Done"}]
    /\ logs = [t \in EpicIds |-> NoLog]
    /\ attempts = [t \in EpicIds |-> 0]
    /\ effects = [t \in EpicIds |-> {}]
    /\ phase = [t \in EpicIds |-> "none"]
    /\ llmCalls = [t \in EpicIds |-> 0]
    /\ entered = [t \in EpicIds |-> FALSE]
    /\ valid = [t \in EpicIds |-> -1]
    /\ InitRunners

SpecEpic == InitEpic /\ [][NextEpics]_vars

\* One runner of main against a store of NTasks Ready run_script tasks, or two
\* runners against a store of one.
InitConcurrent ==
    /\ active \in {{1}, Runners}
    /\ ids = IF active = {1} THEN TaskIds ELSE {1}
    /\ page = [t \in ids |->
                 TaskPage("run_script", CmdPayload(StrV(<<"build.sh">>)), TRUE, 1, t, {})]
    /\ status = [t \in ids |-> "Ready"]
    /\ logs = [t \in ids  |-> NoLog]
    /\ attempts = [t \in ids |-> 0]
    /\ effects = [t \in ids |-> {}]
    /\ phase = [t \in ids |-> "none"]
    /\ llmCalls = [t \in ids |-> 0]
    /\ entered = [t \in ids |-> FALSE]
    /\ valid = [t \in ids |-> -1]
    /\ pc = [r \in Runners |-> "epics"]
    /\ snapshot = [r \in Runners |-> <<>>]
    /\ idx = [r \in Runners |-> 1]
    /\ result = [r \in Runners |-> NoResult]
    /\ passes = [r \in Runners |-> 1]
    /\ epics = [r \in Runners |-> <<>>]
    /\ eidx = [r \in Runners |-> 1]
    /\ decomp = [r \in Runners |-> NoDecomp]
    /\ cidx = [r \in Runners |-> 1]
    /\ created = [r \in Runners |-> 0]
    /\ reply = NoReply
    /\ retryCall = NoCall
    /\ chatCall = NoCall

SpecConcurrent == InitConcurrent /\ [][NextTasks]_vars

\* The validation of one reply.  A reply is a JSON array: a head of up to
\* MaxHead items of any shape, followed by no, MIN_TASKS or MAX_ITEMS
\* well-formed items.
LongTitle == [i \in 1..(TITLE_MAX + 1) |-> IF i = TITLE_MAX THEN SP ELSE "T"]
IntV(n) == [kind |-> "int", n |-> n]
GoodItem == Item(StrV(<<"T">>), StrV(<<"run_script">>), CmdPayload(StrV(<<"build.sh">>)), IntV(3))

HeadItems ==
    {GoodItem,
     Item(StrV(<<"T">>), StrV(<<"run_script">>), CmdPayload(StrV(<<"rm">>)), IntV(7)),
     Item(StrV(<<"T">>), StrV(<<"call_api">>),
          UrlPayload(StrV("https://evil.example/hook"), StrV("post")), NoneV),
     Item(StrV(LongTitle), StrV(<<"run_script">>), CmdPayload(StrV(<<"sync_data.sh">>)), IntV(7)),
     Item(StrV(<<SP, "T", SP>>), StrV(<<"run_script", SP>>), NoneV, [kind |-> "numstr", n |-> 7]),
     Item(StrV(<<SP>>), StrV(<<"run_script">>), NoneV, NoneV),
     Item(StrV(<<"T">>), StrV(<<"codex_apply">>), NoneV, IntV(7)),
     Item(StrV(<<"T">>), OtherV, NoneV, NoneV),
     Item(StrV(<<"T">>), StrV(<<"run_script">>), [kind |-> "nondict"], IntV(7)),
     Item(StrV(<<"T">>), StrV(<<"call_api">>),
          UrlPayload(StrV("https://httpbin.org/post"), OtherV), IntV(7)),
     Item(StrV(<<"T">>), StrV(<<"run_script">>), CmdPayload(StrV(<<"build.sh">>)), OtherV),
     Item(StrV(<<"T">>), StrV(<<"run_script">>), CmdPayload(NoneV), IntV(0)),
     Item(StrV(<<"T">>), StrV(<<"call_api">>), UrlPayload(NoneV, NoneV), IntV(1000)),
     Item(StrV(<<"T">>), StrV(<<"run_script">>), CmdPayload(OtherV), IntV(-3)),
     [kind |-> "other"]}

Replies ==
    {[kind |-> "text", wrap |-> w,
      data |-> [kind |-> "list", items |-> h \o [i \in 1..n |-> GoodItem]]] :
        w \in {"bare", "fenced", "prose"},
        h \in UNION {[1..k -> HeadItems] : k \in 0..MaxHead},
        n \in {0, MIN_TASKS, MAX_ITEMS}}

\* lines 225-277 applied to the reply
validate_reply ==
    /\ pc[1] = "validate"
    /\ decomp' = [decomp EXCEPT ![1] = llm_decompose_epic(reply)]
    /\ pc' = [pc EXCEPT ![1] = "validated"]
    /\ UNCHANGED <<ids, page, status, logs, attempts, effects, phase, active, snapshot,
                   idx, result, passes, epics, eidx, cidx, created, llmCalls, entered,
                   valid, auxVars>>

\* no page in the store, the runners at position p
EmptyStore(p) ==
    /\ ids = {}
    /\ page = [t \in {} |-> 0]
    /\ status = [t \in {} |-> 0]
    /\ logs = [t \in {} |-> 0]
    /\ attempts = [t \in {} |-> 0]
    /\ effects = [t \in {} |-> 0]
    /\ phase = [t \in {} |-> 0]
    /\ llmCalls = [t \in {} |-> 0]
    /\ entered = [t \in {} |-> 0]
    /\ valid = [t \in {} |-> 0]
    /\ active = {1}
    /\ pc = [r \in Runners |-> p]
    /\ snapshot = [r \in Runners |-> <<>>]
    /\ idx = [r \in Runners |-> 1]
    /\ result = [r \in Runners |-> NoResult]
    /\ passes = [r \in Runners |-> 1]
    /\ epics = [r \in Runners |-> <<>>]
    /\ eidx = [r \in Runners |-> 1]
    /\ decomp = [r \in Runners |-> NoDecomp]
    /\ cidx = [r \in Runners |-> 1]
    /\ created = [r \in Runners |-> 0]

InitValidate ==
    /\ EmptyStore("validate")
    /\ reply \in Replies
    /\ retryCall = NoCall
    /\ chatCall = NoCall

SpecValidate == InitValidate /\ [][validate_reply]_vars

\* One call through the _retry wrapper.  A call record holds the loop
\* variable i, the invocations of the wrapped function made so far, the
\* errors they raised, the sleeps taken and the error kept in `last`.
StoreErrors == {"rate_limited", "timeout", "conflict"}

FirstCall(fn) ==
    [state |-> "call", fn |-> fn, i |-> 1, calls |-> 0, errs |-> <<>>, waits |-> <<>>,
     last |-> ""]

\* a wrapper whose loop runs once more
wrap_once_more(c, o) ==
    IF o = "ok"
    THEN [c EXCEPT !.state = "returned", !.calls = @ + 1]
    ELSE LET d == [c EXCEPT !.calls = @ + 1, !.last = o, !.errs = Append(@, o),
                            !.waits = Append(@, RETRY_DELAY * c.i)]
         IN IF c.i = RETRY_N + 1 THEN [d EXCEPT !.state = "raised"] ELSE [d EXCEPT !.i = @ + 1]

\* lines 30-39, one iteration of the loop: fn returns ("ok") or raises o; after
\* a raise the wrapper sleeps delay * i, and after the last iteration it
\* raises `last`
wrap(c, o) ==
    IF o = "ok"
    THEN [c EXCEPT !.state = "returned", !.calls = @ + 1]
    ELSE LET d == [c EXCEPT !.calls = @ + 1, !.last = o, !.errs = Append(@, o),
                            !.waits = Append(@, RETRY_DELAY * c.i)]
         IN IF c.i = RETRY_N THEN [d EXCEPT !.state = "raised"] ELSE [d EXCEPT !.i = @ + 1]

retry_iteration ==
    /\ retryCall.state = "call"
    /\ \E o \in {"ok"} \cup StoreErrors : retryCall' = wrap(retryCall, o)
    /\ UNCHANGED <<ids, page, status, logs, attempts, effects, phase, active, pc, snapshot,
                   idx, result, passes, epicVars, reply, chatCall>>

InitRetry ==
    /\ EmptyStore("idle")
    /\ reply = NoReply
    /\ retryCall \in {FirstCall(fn) : fn \in {"notion_update_page", "notion_append_block"}}
    /\ chatCall = NoCall

\* the wrapper is sequential code: an iteration that can run does run
SpecRetry == InitRetry /\ [][retry_iteration]_vars /\ WF_vars(retry_iteration)

\* One call of chat_complete (decompose_test.py).  The answers to a request:
\* a usable 2xx reply, a 5xx or 4xx response, a network error, a 2xx reply
\* whose body is no JSON (r.json() raises requests' JSONDecodeError, a
\* RequestException, or, with older versions of the library, a ValueError)
\* and a 2xx reply without choices (KeyError).
ChatAnswers ==
    {"ok", "http5xx", "http4xx", "neterr", "json_request_exception", "json_value_error",
     "no_choices"}

FirstChat ==
    [state |-> "call", i |-> 0, calls |-> 0, outs |-> <<>>, waits |-> <<>>, last_err |-> ""]

\* a chat_complete that sleeps and retries after every response that is not ok
chat_complete_retry_all(c, o) ==
    LET d == [c EXCEPT !.calls = @ + 1, !.outs = Append(@, o)] IN
    CASE o = "ok" -> [d EXCEPT !.state = "returned"]
      [] o \in {"json_value_error", "no_choices"} -> [d EXCEPT !.state = "raised"]
      [] OTHER ->
           LET e == [d EXCEPT !.last_err = o, !.waits = Append(@, 2 ^ c.i)] IN
           IF c.i = CHAT_TRIES - 1 THEN [e EXCEPT !.state = "failed"]
           ELSE [e EXCEPT !.i = @ + 1]

\* lines 45-62, one iteration of the loop
chat_complete(c, o) ==
    LET d == [c EXCEPT !.calls = @ + 1, !.outs = Append(@, o)] IN
    CASE o = "ok" -> [d EXCEPT !.state = "returned"]
      [] o \in {"json_value_error", "no_choices"} -> [d EXCEPT !.state = "raised"]
      [] o = "http4xx" -> [d EXCEPT !.last_err = o, !.state = "failed"]
      [] OTHER ->
           LET e == [d EXCEPT !.last_err = o, !.waits = Append(@, 2 ^ c.i)] IN
           IF c.i = CHAT_TRIES - 1 THEN [e EXCEPT !.state = "failed"]
           ELSE [e EXCEPT !.i = @ + 1]

chat_iteration ==
    /\ chatCall.state = "call"
    /\ \E o \in ChatAnswers : chatCall' = chat_complete(chatCall, o)
    /\ UNCHANGED <<ids, page, status, logs, attempts, effects, phase, active, pc, snapshot,
                   idx, result, passes, epicVars, reply, retryCall>>

InitChat ==
    /\ EmptyStore("idle")
    /\ reply = NoReply
    /\ retryCall = NoCall
    /\ chatCall = FirstChat

\* chat_complete is sequential code: an iteration that can run does run
SpecChat == InitChat /\ [][chat_iteration]_vars /\ WF_vars(chat_iteration)

\* A whole run: process_epics, then the task stage.  The store holds one
\* Ready epic and one Ready or Draft task, or one Ready epic more than
\* fetch_ready_epics returns, all with a blank description.
RunStores ==
    {(1 :> EpicPage(d, n, 1)) @@ (2 :> TaskPage("run_script", CmdPayload(StrV(<<"build.sh">>)), TRUE, 1, 2, {})) :
        d \in {<<>>, <<SP>>, <<"T">>}, n \in BOOLEAN}
      \cup {[e \in 1..(EPIC_PAGE_SIZE + 1) |-> EpicPage(<<SP>>, TRUE, e)]}

NextRun ==
    \E r \in Runners :
       \/ fetch_ready_epics(r)
       \/ process_epic_begin(r)
       \/ process_epic_decompose(r)
       \/ create_tasks_in_notion(r)
       \/ process_epic_end(r)
       \/ fetch_ready_tasks(r)
       \/ handle_task_begin(r)
       \/ handle_task_exec(r)
       \/ handle_task_end(r)
       \/ main(r)

InitRun ==
    /\ page \in RunStores
    /\ ids = DOMAIN page
    /\ status \in {st \in [ids -> {"Ready", "Draft"}] :
                     \A t \in ids : page[t].type = "Epic" => st[t] = "Ready"}
    /\ logs = [t \in ids |-> NoLog]
    /\ attempts = [t \in ids |-> 0]
    /\ effects = [t \in ids |-> {}]
    /\ phase = [t \in ids |-> "none"]
    /\ llmCalls = [t \in ids |-> 0]
    /\ entered = [t \in ids |-> FALSE]
    /\ valid = [t \in ids |-> -1]
    /\ InitRunners

SpecRun == InitRun /\ [][NextRun]_vars

----------------------------------------------------------------------------
(* Claims about the task stage.                                             *)

Current(r) == snapshot[r][idx[r]]

\* C1: the stored status of a task only moves Ready -> Running -> {Done,
\* Failed}: it is never written Done or Failed from anything but Running, and
\* a Done or Failed task is never written again, store failures included.
C1_StatusMovesForward ==
    [][\A t \in ids :
          status'[t] # status[t] =>
             \/ status[t] = "Ready" /\ status'[t] = "Running"
             \/ status[t] = "Running" /\ status'[t] \in {"Done", "Failed"}]_vars

\* C2: over repeated passes the number of execution attempts of a task never
\* exceeds maxAttempts (a task that has used its attempts is not selected).
C2_AttemptsBounded == \A t \in ids : attempts[t] <= MaxAttempts

\* C3: a task is set Running (and executed) only when every task it depends
\* on has status Done.
C3_WaitsForDependencies ==
    [][\A t \in ids :
          (phase[t] = "none" /\ phase'[t] = "running") =>
             \A d \in page[t].dependsOn : status[d] = "Done"]_vars

\* the payload's cmd tokenizes, to a number of tokens other than 1
TokenCountNot1(t) ==
    /\ page[t].action = "run_script"
    /\ ParsePayload(page[t].payload).kind = "dict"
    /\ LET c == ParsePayload(page[t].payload).cmd IN
       /\ c.kind # "other"
       /\ LET lexed == shlex_split(IF c.kind = "none" THEN <<>> ELSE c.s) IN
          lexed.ok /\ Len(lexed.parts) # 1

\* C4: a run_script task whose cmd has zero or several tokens spawns no
\* subprocess; handle_task reports it Failed and it is never stored Done.
C4_TokenCountRefused ==
    \A t \in ids :
       TokenCountNot1(t) =>
          /\ effects[t] = {}
          /\ status[t] # "Done"
          /\ \A r \in active :
                (pc[r] = "final" /\ Current(r) = t) =>
                   /\ result[r].status = "Failed"
                   /\ result[r].logs = Log("Error: ", "Only single command name allowed in Payload.cmd", 0)

\* C4 witness: an allow-listed script followed by an argument ended Failed
\* with nothing spawned
C4_Witness ==
    \E t \in ids :
       /\ TokenCountNot1(t)
       /\ page[t].payload.kind = "dict"
       /\ page[t].payload.cmd = StrV(<<"build.sh", SP, "rm">>)
       /\ status[t] = "Failed"
       /\ effects[t] = {}

\* the script a cmd names: the base filename of its only token, if it has one
NamesAllowedScript(c) ==
    /\ c.kind = "str"
    /\ LET lexed == shlex_split(c.s) IN
       /\ lexed.ok
       /\ Len(lexed.parts) = 1
       /\ basename(lexed.parts[1]) \in ALLOWED_SCRIPTS

\* the task's action, url or script is missing or outside the allow-lists
Rejected(t) ==
    LET a == page[t].action
        p == ParsePayload(page[t].payload)
    IN \/ a \notin ALLOWED_ACTIONS
       \/ a = "call_api" /\ p.kind = "dict"
             /\ (p.url.kind # "str" \/ p.url.s \notin ALLOWED_URLS)
       \/ a = "run_script" /\ p.kind = "dict" /\ ~NamesAllowedScript(p.cmd)

\* C5: every HTTP request goes to an element of ALLOWED_URLS, every spawned
\* script's base filename is in ALLOWED_SCRIPTS; a task with a missing or
\* foreign url or script, or an action outside the allowed ones, is reported
\* Failed with no external effect.
C5_AllowListsEnforced ==
    \A t \in ids :
       /\ \A e \in effects[t] :
             /\ e.kind = "http" =>
                   e.url \in ALLOWED_URLS /\ page[t].action = "call_api"
                     /\ page[t].payload.url = StrV(e.url)
             /\ e.kind = "spawn" =>
                   e.script \in ALLOWED_SCRIPTS /\ page[t].action = "run_script"
       /\ Rejected(t) =>
             /\ effects[t] = {}
             /\ status[t] # "Done"
             /\ \A r \in active :
                   (pc[r] = "final" /\ Current(r) = t) => result[r].status = "Failed"

\* C5 witness: a call_api task for a foreign URL ended Failed, no request made
C5_Witness ==
    \E t \in ids :
       /\ page[t].action = "call_api"
       /\ page[t].payload.kind = "dict"
       /\ page[t].payload.url = StrV("https://evil.example/hook")
       /\ status[t] = "Failed"
       /\ logs[t] = Log("Error: ", "URL not allowed", 0)
       /\ effects[t] = {}

\* C6: when the executor returns, Done is recorded exactly for a success of
\* the task's own style: exit code 0 for run_script, 200..299 for call_api.
C6_DoneIffOwnStyle ==
    \A r \in active :
       (pc[r] = "final" /\ result[r].returned) =>
          (result[r].status = "Done" <=>
             \/ page[Current(r)].action = "run_script" /\ result[r].code = 0
             \/ page[Current(r)].action = "call_api"
                   /\ 200 <= result[r].code /\ result[r].code <= 299)

\* C7: main handles every task of the snapshot, however an earlier one failed.
C7_EveryTaskHandled ==
    \A r \in active :
       pc[r] \in {"finished", "crashed"} =>
          \A i \in 1..Len(snapshot[r]) : phase[snapshot[r][i]] = "finished"

\* C8: within a pass the tasks are attempted one at a time in the order
\* (priority, last-modified): when a task has started, every task of the
\* snapshot that is earlier in that order has had its final status write,
\* and at most one task is between its Running write and its final write.
C8_SequentialInOrder ==
    \A r \in active :
       /\ \A i, j \in 1..Len(snapshot[r]) :
             (Before(snapshot[r][i], snapshot[r][j]) /\ phase[snapshot[r][j]] # "none")
                => phase[snapshot[r][i]] = "finished"
       /\ Cardinality({t \in ids : phase[t] \in {"running", "executed"}}) <= 1

\* C8 witness: the task that is later in id order but earlier in
\* (priority, last-modified) order is finished when the other one starts
C8_Witness ==
    \E r \in active :
       \E a, b \in ids :
          /\ a > b
          /\ Len(snapshot[r]) >= 2
          /\ snapshot[r][1] = a /\ snapshot[r][2] = b
          /\ Before(a, b)
          /\ phase[a] = "finished"
          /\ phase[b] = "running"

\* C9: when a pass has ended, every task it handled is stored Done or Failed,
\* store failures included.
C9_NoSilentDrop ==
    \A r \in active :
       pc[r] = "finished" =>
          \A i \in 1..Len(snapshot[r]) : status[snapshot[r][i]] \in {"Done", "Failed"}

----------------------------------------------------------------------------
(* Claims about the epic stage.                                             *)

\* C10: an epic whose reply keeps fewer than MIN_TASKS tasks after validation
\* is reported Failed ("Too few tasks"), create_tasks_in_notion is not entered
\* for it and the store holds no page created for it.
C10_TooFewTasksFailsEpic ==
    \A e \in ids :
       (valid[e] >= 0 /\ valid[e] < MIN_TASKS) =>
          /\ ~entered[e]
          /\ \A t \in ids : page[t].origin # e
          /\ status[e] # "Done"
          /\ \A r \in active :
                (pc[r] = "epic_end" /\ EpicCurrent(r) = e) =>
                   /\ ~decomp[r].ok
                   /\ decomp[r].err = "Too few tasks after validation"

\* C10 witness: a reply that kept four tasks left the epic Failed with the
\* too-few message and no page was created
C10_Witness ==
    \E e \in ids :
       /\ valid[e] = MIN_TASKS - 1
       /\ status[e] = "Failed"
       /\ logs[e] = Log("Epic decomposition failed: ", "Too few tasks after validation", 0)
       /\ ids = EpicIds

\* an epic whose Description is empty or only whitespace
EmptyDescription(e) ==
    /\ page[e].type = "Epic"
    /\ \A i \in DOMAIN page[e].desc : page[e].desc[i] = SP

\* C11: for an epic with an empty or blank description no request goes to the
\* generation backend, no task is created, the only status the engine writes
\* is Failed with the empty-description message, and the loop of
\* process_epics goes on to the next epic (it stops early only at an epic
\* whose Name cannot be read).
C11_EmptyDescriptionFails ==
    /\ \A e \in ids :
          EmptyDescription(e) =>
             /\ llmCalls[e] = 0
             /\ ~entered[e]
             /\ \A t \in ids : page[t].origin # e
             /\ status[e] \in {"Ready", "Done", "Failed"}
             /\ logs[e] \in {NoLog, Log("", "Epic has empty Description", 0)}
             /\ status[e] = "Failed" <=> logs[e] # NoLog
             /\ \A r \in active :
                   (pc[r] \in {"decompose", "create", "epic_end"}) => EpicCurrent(r) # e
    /\ \A r \in active :
          (pc[r] = "fetch" /\ eidx[r] <= Len(epics[r])) => ~page[EpicCurrent(r)].nameOk

\* C11 witness: the first epic, with a blank description, was failed without a
\* request and the loop went on to decompose the second
C11_Witness ==
    /\ epics[1] = <<1, 2>>
    /\ page[1].desc = <<SP>>
    /\ status[1] = "Failed"
    /\ logs[1] = Log("", "Epic has empty Description", 0)
    /\ llmCalls[1] = 0
    /\ llmCalls[2] = 1
    /\ status[2] = "Done"

\* the log texts process_epics writes for a failed epic
EpicFailureLogs ==
    {Log("", "Epic has empty Description", 0)}
      \cup {Log("Epic decomposition failed: ", m, 0) :
               m \in {"OPENAI_API_KEY not set (LLM unavailable)", "RequestException",
                      "OpenAI API error", "KeyError: choices", "LLM JSON parse error",
                      "Expected a JSON array", "Too few tasks after validation",
                      "item has no get()", "action has no strip()",
                      "int(): invalid priority", "payload has no get()",
                      "method has no upper()"}}

\* C12: over a whole run no epic is ever fetched by the task stage, and an
\* epic stored Failed carries one of the failure messages of process_epics.
C12_EpicStatusOnlyFromPipeline ==
    /\ \A r \in active : \A i \in 1..Len(snapshot[r]) : page[snapshot[r][i]].type # "Epic"
    /\ \A e \in ids :
          (page[e].type = "Epic" /\ status[e] = "Failed") => logs[e] \in EpicFailureLogs

\* the task pages created for epic e
CreatedFor(e) == {t \in ids : page[t].origin = e}

\* C13: once create_tasks_in_notion was entered for an epic, a creation is
\* attempted for every validated task, the epic is reported Done with the
\* number of pages created for it, and it is never stored Failed.
C13_CreationFailureKeepsBatch ==
    \A e \in ids :
       entered[e] =>
          /\ status[e] # "Failed"
          /\ status[e] = "Done" => logs[e] = Log("Created ", " task(s) from epic",
                                                 Cardinality(CreatedFor(e)))
          /\ \A r \in active :
                (pc[r] = "epic_end" /\ EpicCurrent(r) = e) =>
                   /\ decomp[r].ok
                   /\ cidx[r] = Len(decomp[r].tasks) + 1
                   /\ created[r] = Cardinality(CreatedFor(e))

----------------------------------------------------------------------------
(* Claims about the validation of a reply.                                  *)

\* the elements of the reply the validation loop looks at
First25 == Take(reply.data.items, MAX_ITEMS)

\* the reply was parsed to a JSON array and validated
Validated == pc[1] = "validated" /\ ExtractArray(reply.wrap, reply.data).ok

NumericOrAbsent(v) == v.kind \in {"none", "int", "numstr"}

\* an element with a non-empty title and action run_script or call_api
Qualifies(it) ==
    /\ it.kind = "dict"
    /\ \/ it.title.kind = "other"
       \/ it.title.kind = "str" /\ \E k \in DOMAIN it.title.s : it.title.s[k] # SP
    /\ it.action.kind = "str"
    /\ strip(it.action.s) \in {<<"run_script">>, <<"call_api">>}

\* C14: a reply that is an array of objects (with textual or absent actions
\* and numeric or absent priorities) is never rejected for what the payloads
\* of its elements contain: every
\* qualifying element among the first MAX_ITEMS yields one task, in order,
\* with its cmd or url kept when allow-listed and replaced by the default
\* otherwise; the batch fails only for having fewer than MIN_TASKS of them.
C14_ClampsNeverRejects ==
    (/\ Validated
     /\ \A k \in DOMAIN First25 :
           /\ First25[k].kind = "dict"
           /\ First25[k].action.kind # "other"
           /\ NumericOrAbsent(First25[k].priority))
    => LET exp == SelectSeq(First25, Qualifies)
           out == decomp[1]
       IN IF Len(exp) < MIN_TASKS
          THEN ~out.ok /\ out.err = "Too few tasks after validation"
          ELSE /\ out.ok
               /\ Len(out.tasks) = Len(exp)
               /\ \A k \in DOMAIN exp :
                     LET t == out.tasks[k]
                         pl == exp[k].payload
                     IN /\ t.action = strip(exp[k].action.s)
                        /\ t.action = <<"run_script">> =>
                              /\ t.payload.cmd \in ALLOWED_SCRIPTS
                              /\ (pl.kind = "dict" /\ pl.cmd.kind = "str"
                                     /\ pl.cmd.s \in ALLOWED_SCRIPTS) => t.payload.cmd = pl.cmd.s
                        /\ t.action = <<"call_api">> => t.payload.url \in ALLOWED_URLS

\* the priority the validator is to give the k-th accepted element
ExpectedPriority(v, k) ==
    CASE v.kind \in {"int", "numstr"} -> Clamp(v.n)
      [] OTHER -> k

\* C15: for a reply that is an array of objects with well-formed payloads,
\* the batch is not failed for a priority, and the k-th accepted task has the
\* clamped numeric priority of its element, or k when the priority is absent
\* or not numeric.
C15_PriorityClampedOrCounter ==
    (/\ Validated
     /\ \A k \in DOMAIN First25 :
           /\ First25[k].kind = "dict"
           /\ First25[k].action.kind # "other"
           /\ First25[k].payload.kind \in {"none", "dict"}
           /\ First25[k].payload.kind = "dict" => First25[k].payload.method.kind # "other"
     /\ Len(SelectSeq(First25, Qualifies)) >= MIN_TASKS)
    => LET exp == SelectSeq(First25, Qualifies)
           out == decomp[1]
       IN /\ out.ok
          /\ Len(out.tasks) = Len(exp)
          /\ \A k \in DOMAIN exp :
                /\ out.tasks[k].priority \in 1..PRIORITY_MAX
                /\ out.tasks[k].priority = ExpectedPriority(exp[k].priority, k)

\* a validated task, read again as an element of a reply
AsItem(t) ==
    Item(StrV(t.title), StrV(t.action),
         IF t.action = <<"run_script">>
         THEN CmdPayload(StrV(t.payload.cmd))
         ELSE [UrlPayload(StrV(t.payload.url), StrV(t.payload.method))
                 EXCEPT !.body = t.payload.body],
         IntV(t.priority))

\* C16: the validation loop applied to a list it returned returns that list.
C16_SanitizationIdempotent ==
    (pc[1] = "validated" /\ decomp[1].ok) =>
       LET out == decomp[1].tasks
           again == ValidateLoop([k \in DOMAIN out |-> AsItem(out[k])], 1, 1, <<>>)
       IN again.ok /\ again.tasks = out

----------------------------------------------------------------------------
(* Claims about concurrent runners.                                         *)

\* C17: a task is executed at most once in each pass of each runner, so a
\* single runner executes it at most once per pass; two runners can both
\* execute it in their first pass.
C17_AtMostOncePerPass ==
    \A t \in ids :
       /\ active = {1} => attempts[t] <= passes[1]
       /\ active = Runners => attempts[t] <= passes[1] + passes[2]
       /\ \A r \in active :
             Cardinality({i \in DOMAIN snapshot[r] : snapshot[r][i] = t}) <= 1

\* C17 witness: both runners, each in its first pass, have run the script of
\* the same task
C17_Witness ==
    /\ active = Runners
    /\ passes = [r \in Runners |-> 1]
    /\ pc = [r \in Runners |-> "final"]
    /\ Current(1) = Current(2)
    /\ result[1].returned /\ result[2].returned
    /\ attempts[Current(1)] = 2
    /\ effects[Current(1)] = {Spawn(<<"build.sh">>)}

----------------------------------------------------------------------------
(* Claims about the retried calls.                                          *)

RetryEnded == retryCall.state \in {"returned", "raised"}

RetryInv ==
    LET c == retryCall IN
    /\ c.calls <= RETRY_N
    /\ Len(c.waits) = Len(c.errs)
    /\ \A k \in DOMAIN c.waits : c.waits[k] = RETRY_DELAY * k
    /\ c.state = "call" => c.calls = Len(c.errs) /\ c.calls < RETRY_N
    /\ c.state = "returned" => c.calls = Len(c.errs) + 1
    /\ c.state = "raised" =>
          c.calls = RETRY_N /\ Len(c.errs) = RETRY_N /\ c.last = c.errs[RETRY_N]

\* C18: a call through the wrapper invokes the wrapped function at most
\* RETRY_N times, sleeps RETRY_DELAY * k after the k-th failure, returns at
\* the first invocation that succeeds, raises the last error after RETRY_N
\* failures, makes no invocation after it has ended, and always ends.
C18_RetryBounded ==
    /\ []RetryInv
    /\ [][RetryEnded => retryCall' = retryCall]_vars
    /\ <>RetryEnded

\* C18 witness: RETRY_N failures, then the last error is raised
C18_Witness ==
    /\ retryCall.state = "raised"
    /\ retryCall.calls = RETRY_N
    /\ retryCall.waits = <<8, 16, 24, 32, 40>>
    /\ retryCall.errs = <<"timeout", "timeout", "timeout", "timeout", "rate_limited">>
    /\ retryCall.last = "rate_limited"

ChatEnded == chatCall.state \in {"returned", "failed", "raised"}

\* the answers after which chat_complete sleeps and sends another request
Retriable == {"http5xx", "neterr", "json_request_exception"}

ChatInv ==
    LET c == chatCall IN
    /\ c.calls <= CHAT_TRIES
    /\ c.calls = Len(c.outs)
    /\ \A k \in DOMAIN c.outs : k < Len(c.outs) => c.outs[k] \in Retriable
    /\ \A k \in DOMAIN c.waits : c.waits[k] = 2 ^ (k - 1) /\ c.outs[k] \in Retriable
    /\ c.state = "call" => Len(c.waits) = Len(c.outs) /\ c.calls < CHAT_TRIES
    /\ c.state = "returned" => c.outs[Len(c.outs)] = "ok"
    /\ c.state = "failed" =>
          \/ c.outs[Len(c.outs)] = "http4xx" /\ Len(c.waits) = Len(c.outs) - 1
          \/ c.outs[Len(c.outs)] \in Retriable /\ c.calls = CHAT_TRIES
    /\ (c.outs # <<>> /\ c.outs[Len(c.outs)] \in {"ok", "http4xx"}) => c.state # "call"

\* C19: chat_complete sends at most CHAT_TRIES requests, returns at the first
\* usable reply, sends another request only after a 5xx response or a
\* network-class error, having slept 2^i, stops at a 4xx response without a
\* sleep or a further request, and always ends.
C19_ChatRetryPolicy ==
    /\ []ChatInv
    /\ [][ChatEnded => chatCall' = chatCall]_vars
    /\ <>ChatEnded

\* C19 witness: a 5xx response and a network error were retried, the 4xx
\* response that followed ended the call
C19_Witness ==
    /\ chatCall.state = "failed"
    /\ chatCall.outs = <<"http5xx", "neterr", "http4xx">>
    /\ chatCall.waits = <<1, 2>>
    /\ chatCall.calls = 3

----------------------------------------------------------------------------
(* Claims about a whole run.                                                *)

\* C20: a page created by the decomposition is stored Draft and is never
\* fetched, set Running or executed; no step changes the status of a Draft
\* page, and the task stage begins only tasks that are stored Ready.
C20_DraftsNeedPromotion ==
    /\ [](\A t \in ids :
            page[t].origin # 0 =>
               /\ status[t] = "Draft"
               /\ attempts[t] = 0
               /\ effects[t] = {}
               /\ \A r \in active : \A i \in DOMAIN snapshot[r] : snapshot[r][i] # t)
    /\ [][\A t \in ids :
            /\ status[t] = "Draft" => status'[t] = "Draft"
            /\ attempts'[t] # attempts[t] => status[t] = "Ready"
            /\ effects'[t] # effects[t] => status[t] \in {"Ready", "Running"}]_vars

\* C20 witness: a run has ended in which the epic was decomposed into five
\* Draft pages and the Ready task was executed; no Draft page was touched
C20_Witness ==
    /\ pc[1] = "finished"
    /\ passes[1] = 1
    /\ status[1] = "Done"
    /\ Cardinality(CreatedFor(1)) = MIN_TASKS
    /\ \A t \in CreatedFor(1) : status[t] = "Draft" /\ attempts[t] = 0
    /\ status[2] = "Done"
    /\ attempts[2] = 1

====
